---- MODULE Spec2Model ----
(***************************************************************************)
(* A model of the essay grading desktop application of src/main.py: the    *)
(* file list, the results store, the background Worker and the handlers of *)
(* EssayGraderApp (add_files, start_grading, process_next_file, on_result, *)
(* on_error, load_selected_result, export_to_word).                        *)
(*                                                                         *)
(* List indices are the 0-based row numbers of the code; item(i) is        *)
(* file_list[i + 1].                                                       *)
(***************************************************************************)
EXTENDS Integers, Sequences, FiniteSets, TLC

\* ------------------------------------------------------------------ bounds
\* number of distinct file paths the user can pick
MaxFiles == 2
\* longest selection returned by one file dialog
MaxSelect == 2
\* longest file list of the progress specification
MaxCount == 50

\* image sides of the image specification: 1..MaxSmallSide, the sides within
\* MaxNearSide of max_size, and the sides next to its multiples up to MaxFactor
MaxSmallSide == 10
MaxNearSide == 10
MaxFactor == 3

\* longest string value of the reply specification
MaxValueLen == 3
\* most fields a result of the rendering specification lacks
MaxAbsent == 2
\* largest dimension score and largest total of the rendering specification
MaxDimScore == 5
MaxTotalScore == 15

Paths == 1..MaxFiles

\* ------------------------------------------------------------ input domains
\* texts of the two line edits, as character sequences
Texts == {<<>>, <<" ">>, <<" ", "k", " ">>}

\* the top-level keys of the JSON object the rubric prompt asks for
AllFields ==
    {"recognized_text", "essay_type", "scores", "feedback_detail", "revised_version"}

\* grading results the model endpoint may return: a result is the set of the
\* top-level keys present in the parsed JSON object.  Here the complete result
\* and the one display_result raises on; what the projections write for every
\* other absent key is followed in detail further down.
Results ==
    {AllFields, AllFields \ {"revised_version"}}

\* the ways Worker.run can fail
ErrorKinds == {"preprocess", "transport", "parse", "not_object"}

\* selections a file dialog can return (the empty one: dialog cancelled)
RECURSIVE SeqsUpTo(_)
SeqsUpTo(n) ==
    IF n = 0 THEN {<<>>}
    ELSE LET shorter == SeqsUpTo(n - 1)
         IN  shorter \cup {Append(s, p) : s \in {t \in shorter : Len(t) = n - 1}, p \in Paths}

Selections == SeqsUpTo(MaxSelect)

\* ------------------------------------------------------------------ helpers
\* the whitespace str.strip() removes, as far as the texts here hold any
Whitespace == {" ", "\n"}

\* str.strip() on a character sequence
RECURSIVE LStrip(_)
LStrip(s) == IF s # <<>> /\ Head(s) \in Whitespace THEN LStrip(Tail(s)) ELSE s

RECURSIVE RStrip(_)
RStrip(s) ==
    IF s # <<>> /\ s[Len(s)] \in Whitespace THEN RStrip(SubSeq(s, 1, Len(s) - 1)) ELSE s

Strip(s) == RStrip(LStrip(s))

\* results_store is a dict: an insertion-ordered sequence of key/value pairs
Keys(store) == {store[k].path : k \in 1..Len(store)}

Lookup(store, path) ==
    LET k == CHOOSE k \in 1..Len(store) : store[k].path = path IN store[k].data

\* results_store[path] = data: a new key goes last, an old key keeps its place
StorePut(store, path, data) ==
    IF path \in Keys(store)
    THEN [k \in 1..Len(store) |->
            IF store[k].path = path THEN [path |-> path, data |-> data] ELSE store[k]]
    ELSE Append(store, [path |-> path, data |-> data])

\* [item.data(Qt.UserRole) for every row]
ItemPaths(list) == {list[k].data : k \in 1..Len(list)}

\* ------------------------------------------- float arithmetic of line 328
\* int((index / count) * 100) is computed in IEEE 754 binary64: the quotient
\* and the product are each rounded to a 53-bit significand (nearest, ties to
\* even) and int() truncates.  A float is [d |-> <<top, d1, .., d4>>, e |-> e]:
\* an integer part top and 52 fraction bits held as FracLimbs limbs of
\* LimbBits bits, scaled by 2^-e.
FracLimbs == 4
LimbBits == 13
LimbBase == 2^LimbBits

RECURSIVE BitLen(_)
BitLen(n) == IF n = 0 THEN 0 ELSE 1 + BitLen(n \div 2)

\* carries pushed towards the head, every limb back in 0..LimbBase-1
RECURSIVE Carry(_)
Carry(ds) ==
    IF Len(ds) = 1 THEN ds
    ELSE LET last == ds[Len(ds)]
             rest == SubSeq(ds, 1, Len(ds) - 1)
         IN  Append(Carry([rest EXCEPT ![Len(rest)] = @ + (last \div LimbBase)]),
                    last % LimbBase)

\* the least e with x * 2^e >= n, and that x * 2^e  (0 < x < n)
RECURSIVE Normalise(_, _, _)
Normalise(x, n, e) ==
    IF x >= n THEN [x |-> x, e |-> e] ELSE Normalise(2 * x, n, e + 1)

\* long division: k more quotient limbs of r / n (r < n), and the last remainder
RECURSIVE DivLimbs(_, _, _, _)
DivLimbs(r, n, k, acc) ==
    IF k = 0 THEN [limbs |-> acc, rem |-> r]
    ELSE DivLimbs((r * LimbBase) % n, n, k - 1, Append(acc, (r * LimbBase) \div n))

\* index / count for 0 < index < count, rounded to nearest, ties to even
FloatDiv(index, count) ==
    LET nz  == Normalise(index, count, 0)
        q   == DivLimbs(nz.x - count, count, FracLimbs, <<>>)
        ds  == <<1>> \o q.limbs
        up  == \/ 2 * q.rem > count
               \/ 2 * q.rem = count /\ ds[Len(ds)] % 2 = 1
    IN  [d |-> IF up THEN Carry([ds EXCEPT ![Len(ds)] = @ + 1]) ELSE ds, e |-> nz.e]

\* f * c for a small integer c >= 1, rounded to nearest, ties to even
FloatMul(f, c) ==
    LET p    == Carry([k \in 1..Len(f.d) |-> f.d[k] * c])
        drop == BitLen(p[1]) - 1
        unit == 2^drop
        low  == p[Len(p)] % unit
        up   == \/ 2 * low > unit
                \/ 2 * low = unit /\ (p[Len(p)] \div unit) % 2 = 1
    IN  [d |-> Carry([p EXCEPT ![Len(p)] = @ - low + (IF up THEN unit ELSE 0)]),
         e |-> f.e]

\* int(f): truncation towards zero of a float f >= 0 with f.e >= 0
FloatToInt(f) == IF f.e > LimbBits THEN 0 ELSE f.d[1] \div (2^f.e)

\* int((index / count) * 100) in float arithmetic, for 0 <= index < count
FloatPercent(index, count) ==
    IF index = 0 THEN 0 ELSE FloatToInt(FloatMul(FloatDiv(index, count), 100))

\* FloatPercent tabulated once for every list length the model reaches
MaxRows == IF MaxCount > MaxFiles THEN MaxCount ELSE MaxFiles

PercentTable ==
    [count \in 1..MaxRows |-> [index \in 0..(count - 1) |-> FloatPercent(index, count)]]

\* int((index / self.file_list.count()) * 100), for 0 <= index < count
ProgressValue(index, count) == PercentTable[count][index]

\* -------------------------------------------------------------------- state
VARIABLES
    file_list,       \* QListWidget rows: [data |-> path, text |-> "plain" | "[v]" | "[X]"]
    results_store,   \* self.results_store, in insertion order
    workers,         \* the Workers started whose completion signal is not yet handled, oldest first
    btn_run,         \* self.btn_run.isEnabled()
    btn_export,      \* self.btn_export.isEnabled()
    progress_bar,    \* self.progress_bar.value()
    status_label,    \* self.status_label.text()
    current_row,     \* self.file_list.currentRow()
    display,         \* text_original, text_feedback, text_revised
    notice,          \* the message box the last handler showed ("none": it showed none)
    document,        \* the last report written by doc.save
    session,         \* "alive", or "aborted" once an unhandled exception ended the process
    last_call,       \* history: the handler that ran last
    batch_cached,    \* history: the store as it was when the current batch began
    batch_started,   \* history: the row indices the current batch started a Worker for
    batch_count,     \* history: self.file_list.count() when the current batch began
    locals           \* the local variables of the function a function-level specification steps through

vars ==
    <<file_list, results_store, workers, btn_run, btn_export, progress_bar,
      status_label, current_row, display, notice, document, session, last_call,
      batch_cached, batch_count, batch_started, locals>>

\* values of the three text views
Empty == [kind |-> "empty", data |-> {}]
NotGraded == [kind |-> "not_graded_or_failed", data |-> {}]
Rendered(data) == [kind |-> "rendered", data |-> data]

\* values of the status label ("ready", "processing" a path, "all_done")
Label(kind, path) == [kind |-> kind, path |-> path]

\* a history record: the handler, whether it was given a blank credential or
\* endpoint (start_grading), and the row it was about (-1: none)
Call(op, blank, index) == [op |-> op, blank |-> blank, index |-> index]

\* a text of spaces only (the empty text too)
Blank(text) == \A k \in 1..Len(text) : text[k] = " "

\* no function is being followed
NoLocals == [fn |-> "none"]

\* the locals of add_files: the selection the file dialog returned
AddLocals(files) == [fn |-> "add_files", files |-> files]

RemoveAt(seq, k) == SubSeq(seq, 1, k - 1) \o SubSeq(seq, k + 1, Len(seq))

Running == [kind |-> "running", result |-> {}, err |-> ""]
Finished(result) == [kind |-> "finished", result |-> result, err |-> ""]
Failed(err) == [kind |-> "error", result |-> {}, err |-> err]

Init ==
    /\ file_list = <<>>
    /\ results_store = <<>>
    /\ workers = <<>>
    /\ btn_run = TRUE
    /\ btn_export = FALSE
    /\ progress_bar = -1
    /\ status_label = Label("ready", 0)
    /\ current_row = -1
    /\ display = [text_original |-> Empty, text_feedback |-> Empty, text_revised |-> Empty]
    /\ notice = "none"
    /\ document = [saved |-> FALSE, sections |-> <<>>]
    /\ session = "alive"
    /\ last_call = Call("init", FALSE, -1)
    /\ batch_cached = <<>>
    /\ batch_started = <<>>
    /\ batch_count = 0
    /\ locals = NoLocals

\* ------------------------------------------------------------------ add_files
\* the membership test left out: every selected file is appended
AddOne_always(list, f) == Append(list, [data |-> f, text |-> "plain"])

\* the loop body of add_files for one selected file
AddOne(list, f) ==
    IF f \notin ItemPaths(list) THEN Append(list, [data |-> f, text |-> "plain"]) ELSE list

RECURSIVE AddAll(_, _)
AddAll(list, files) ==
    IF files = <<>> THEN list ELSE AddAll(AddOne(list, Head(files)), Tail(files))

AddFiles(files) ==
    /\ session = "alive"
    /\ file_list' = AddAll(file_list, files)
    /\ notice' = "none"
    /\ last_call' = Call("add_files", FALSE, -1)
    /\ locals' = IF locals.fn = "add_files" THEN AddLocals(files) ELSE locals
    /\ UNCHANGED <<results_store, workers, btn_run, btn_export, progress_bar,
                   status_label, current_row, display, document, session,
                   batch_cached, batch_count, batch_started>>

\* ---------------------------------------------------------- process_next_file
\* the skip test left out: every row is graded again
IsCached_never(path, store) == FALSE

\* `file_path in self.results_store`
IsCached(path, store) == path \in Keys(store)

\* the skip of a graded file stepping over the row after it too
SkipNext_two(index) == index + 2

\* the index of the recursive call that skips a graded file
SkipNext(index) == index + 1

\* the index process_next_file(index, ..) stops its recursion at: the first row
\* from index on that is not in the store, or an index past the last row
RECURSIVE FirstUncached(_, _, _)
FirstUncached(index, list, store) ==
    IF index >= Len(list) THEN index
    ELSE IF IsCached(list[index + 1].data, store)
         THEN FirstUncached(SkipNext(index), list, store)
         ELSE index

\* process_next_file(index, api_key, endpoint), entered with the caller's
\* effects so far in ctx: the store, the unhandled Workers, the two buttons and
\* the history of started rows
ProcessNextFile(index, api_key, endpoint, ctx) ==
    LET at == FirstUncached(index, file_list, ctx.store)
    IN  IF at >= Len(file_list)
        THEN /\ status_label' = Label("all_done", 0)
             /\ progress_bar' = 100
             /\ btn_run' = TRUE
             /\ btn_export' = TRUE
             /\ notice' = "batch_complete"
             /\ workers' = ctx.workers
             /\ batch_started' = ctx.started
             /\ UNCHANGED current_row
        ELSE /\ current_row' = at
             /\ status_label' = Label("processing", file_list[at + 1].data)
             /\ progress_bar' = ProgressValue(at, Len(file_list))
             /\ workers' = Append(ctx.workers, [file_path      |-> file_list[at + 1].data,
                                                 api_key        |-> api_key,
                                                 model_endpoint |-> endpoint,
                                                 index          |-> at,
                                                 sig            |-> Running])
             /\ batch_started' = Append(ctx.started, at)
             /\ btn_run' = ctx.btn_run
             /\ btn_export' = ctx.btn_export
             /\ notice' = "none"

\* -------------------------------------------------------------- start_grading
\* `and` written for `or`: one of the two fields is enough
ConfigMissing_both(api_key, endpoint) == api_key = <<>> /\ endpoint = <<>>

\* `not api_key or not endpoint`
ConfigMissing(api_key, endpoint) == api_key = <<>> \/ endpoint = <<>>

\* the Run button left enabled during a batch
RunEnabledWhileGrading_stays == TRUE

\* self.btn_run.setEnabled(False) and self.btn_export.setEnabled(False)
RunEnabledWhileGrading == FALSE

\* the Export button left enabled during a batch
ExportEnabledWhileGrading_stays == TRUE

ExportEnabledWhileGrading == FALSE

StartGrading(key_text, endpoint_text) ==
    LET api_key  == Strip(key_text)
        endpoint == Strip(endpoint_text)
    IN  /\ session = "alive"
        /\ btn_run
        /\ last_call' = Call("start_grading", Blank(key_text) \/ Blank(endpoint_text), -1)
        /\ IF Len(file_list) = 0
           THEN /\ notice' = "none"
                /\ UNCHANGED <<file_list, results_store, workers, btn_run, btn_export,
                               progress_bar, status_label, current_row, display,
                               document, session, batch_cached, batch_count, batch_started, locals>>
           ELSE IF ConfigMissing(api_key, endpoint)
           THEN /\ notice' = "config_missing"
                /\ UNCHANGED <<file_list, results_store, workers, btn_run, btn_export,
                               progress_bar, status_label, current_row, display,
                               document, session, batch_cached, batch_count, batch_started, locals>>
           ELSE /\ batch_cached' = results_store
                /\ batch_count' = Len(file_list)
                /\ ProcessNextFile(0, api_key, endpoint,
                                   [store      |-> results_store,
                                    workers    |-> workers,
                                    btn_run    |-> RunEnabledWhileGrading,
                                    btn_export |-> ExportEnabledWhileGrading,
                                    started    |-> <<>>])
                /\ UNCHANGED <<file_list, results_store, display, document, session,
                               locals>>

\* ----------------------------------------------------------------- Worker.run
\* what run() meets: encode_image raises, the request raises, or the reply
\* text, once cleaned, is not JSON, is JSON but not an object, or is an object
Outcome(stage, result) == [stage |-> stage, result |-> result]

Outcomes ==
    {Outcome(stage, {}) : stage \in {"encode_raises", "request_raises", "not_json", "not_object"}}
        \cup {Outcome("object", r) : r \in Results}

\* the signal run() emits: error.emit of the outer except for an exception of
\* encode_image or of the request; error.emit of the inner except for a
\* JSONDecodeError; finished.emit for an object; for any other JSON value
\* finished.emit raises TypeError (the signal's first argument is declared
\* dict) before anything is emitted and the outer except emits error
Emit(outcome) ==
    CASE outcome.stage = "encode_raises"  -> Failed("preprocess")
      [] outcome.stage = "request_raises" -> Failed("transport")
      [] outcome.stage = "not_json"       -> Failed("parse")
      [] outcome.stage = "not_object"     -> Failed("not_object")
      [] outcome.stage = "object"         -> Finished(outcome.result)

\* run() ends by emitting one signal, queued to the GUI thread
WorkerRun(k, sig) ==
    /\ session = "alive"
    /\ k \in 1..Len(workers)
    /\ workers[k].sig = Running
    /\ workers' = [workers EXCEPT ![k].sig = sig]
    /\ last_call' = Call("run", FALSE, workers[k].index)
    /\ UNCHANGED <<file_list, results_store, btn_run, btn_export, progress_bar,
                   status_label, current_row, display, notice, document, session,
                   batch_cached, batch_count, batch_started, locals>>

\* ------------------------------------------------------------- display_result
\* self.text_revised.setText(data.get('revised_version')) raises TypeError on
\* None; every other lookup of an absent key yields None or its default
DisplayRaises(data) == "revised_version" \notin data

\* the three views after display_result(data): text_original is set before
\* the setText that may raise
DisplayResult(data) ==
    IF DisplayRaises(data)
    THEN [display EXCEPT !.text_original = Rendered(data)]
    ELSE [text_original |-> Rendered(data),
          text_feedback |-> Rendered(data),
          text_revised  |-> Rendered(data)]

\* what becomes of the process when a slot raises: PyQt5 aborts it, unless an
\* excepthook is installed, and then the event loop goes on
AfterRaise == {"alive", "aborted"}

\* ------------------------------------- display_result and export, in detail
\* A grading result here is the parsed JSON object itself: a function from
\* the keys present to their values, objects nested, sentence_corrections a
\* list of objects.  Leaves are Python values: a str, an int, or None (what
\* dict.get gives for an absent key).  A text is a sequence of characters;
\* the text of a str leaf is kept as one piece.
PyStr(text) == [type |-> "str", int |-> 0, str |-> text]

PyInt(n) == [type |-> "int", int |-> n, str |-> ""]

None == [type |-> "None", int |-> 0, str |-> ""]

\* dict.get(key, default) and dict.get(key)
Get(dict, key, default) == IF key \in DOMAIN dict THEN dict[key] ELSE default

GetOrNone(dict, key) == Get(dict, key, None)

\* the truth value of a dict
Truthy(dict) == DOMAIN dict # {}

EmptyDict == [key \in {} |-> None]

\* str(n) for n >= 0
DigitChars == <<"0", "1", "2", "3", "4", "5", "6", "7", "8", "9">>

RECURSIVE Digits(_)
Digits(n) ==
    IF n < 10 THEN <<DigitChars[n + 1]>> ELSE Digits(n \div 10) \o <<DigitChars[(n % 10) + 1]>>

\* str(value), also what an f-string writes for {value}
Format(value) ==
    CASE value.type = "str"  -> <<value.str>>
      [] value.type = "int"  -> Digits(value.int)
      [] value.type = "None" -> <<"N", "o", "n", "e">>

\* the literal defaults and fixed texts of the two projections
Wu == PyStr("wu")

ZanWu == PyStr("zanwu")

EmptyStr == PyStr("")

NoCorrectionsHtml == <<"no_sentence_corrections_html">>

NoCorrectionsDoc == <<"no_sentence_corrections_doc">>

OutOf15 == <<"/", "1", "5">>

OutOf5 == <<"/", "5">>

\* QTextEdit.setText(value), add_paragraph(value), add_run(value): the text
\* of a str; None is no str (setText raises TypeError)
TextOf(value) == IF value = EmptyStr THEN <<>> ELSE Format(value)

\* the texts display_result writes, by place, and whether it raised: lines
\* 369 and 371 run before the HTML is built, so a raise at 371 leaves
\* text_feedback unset
DisplayResultTexts(data) ==
    LET scores      == Get(data, "scores", EmptyDict)
        fb          == Get(data, "feedback_detail", EmptyDict)
        content_fb  == Get(fb, "content", EmptyDict)
        lang_fb     == Get(fb, "language", EmptyDict)
        corrections == Get(lang_fb, "sentence_corrections", <<>>)
        original    ==
            [place \in {"essay_type", "recognized_text"} |-> Format(GetOrNone(data, place))]
        feedback    ==
            [place \in {"total", "dim1_score", "dim2_score", "dim3_score", "weakness",
                        "suggestion", "corrections", "general_comment", "structure",
                        "overall_summary"} |->
                CASE place = "total"           -> Format(GetOrNone(scores, "total")) \o OutOf15
                  [] place \in {"dim1_score", "dim2_score", "dim3_score"}
                                               -> Format(GetOrNone(scores, place)) \o OutOf5
                  [] place \in {"weakness", "suggestion"}
                                               -> Format(Get(content_fb, place, Wu))
                  [] place = "corrections"     ->
                        IF corrections # <<>>
                        THEN [k \in 1..Len(corrections) |->
                                 [part \in {"original", "revised", "explanation"} |->
                                     Format(GetOrNone(corrections[k], part))]]
                        ELSE NoCorrectionsHtml
                  [] place = "general_comment" -> TextOf(Get(lang_fb, place, EmptyStr))
                  [] place = "structure"       -> Format(Get(fb, place, Wu))
                  [] place = "overall_summary" -> TextOf(Get(fb, place, EmptyStr))]
    IN  IF DisplayRaises(DOMAIN data)
        THEN [raised |-> TRUE, text_original |-> original, text_revised |-> <<>>,
              text_feedback |-> EmptyDict]
        ELSE [raised |-> FALSE, text_original |-> original,
              text_revised |-> TextOf(data["revised_version"]),
              text_feedback |-> feedback]

\* the texts the loop body of export_to_word adds for one result, by place
ExportSectionTexts(data) ==
    LET scores      == Get(data, "scores", EmptyDict)
        fb          == Get(data, "feedback_detail", EmptyDict)
        content_fb  == Get(fb, "content", EmptyDict)
        lang_fb     == Get(fb, "language", EmptyDict)
        corrections == IF Truthy(lang_fb) THEN Get(lang_fb, "sentence_corrections", <<>>)
                       ELSE <<>>
    IN  [place \in {"recognized_text", "total", "dim1_score", "dim2_score", "dim3_score",
                    "weakness", "suggestion", "corrections", "structure",
                    "overall_summary", "revised_version"} |->
            CASE place = "recognized_text" -> TextOf(Get(data, place, EmptyStr))
              [] place = "total"           -> Format(GetOrNone(scores, "total")) \o OutOf15
              [] place \in {"dim1_score", "dim2_score", "dim3_score"}
                                           -> Format(Get(scores, place, PyInt(0)))
              [] place \in {"weakness", "suggestion"}
                                           -> Format(IF Truthy(content_fb)
                                                     THEN GetOrNone(content_fb, place)
                                                     ELSE Wu)
              [] place = "corrections"     ->
                    IF corrections # <<>>
                    THEN [k \in 1..Len(corrections) |->
                             [part \in {"original", "revised", "explanation"} |->
                                 TextOf(Get(corrections[k], part, EmptyStr))]]
                    ELSE NoCorrectionsDoc
              [] place \in {"structure", "overall_summary"}
                                           -> Format(Get(fb, place, Wu))
              [] place = "revised_version" -> TextOf(Get(data, place, ZanWu))]

\* the locals of a projection: the result, the fields it was built without,
\* which projection ran ("none": neither yet) and the texts it wrote
RenderLocals(data, absent, ran, texts) ==
    [fn |-> "render", data |-> data, absent |-> absent, ran |-> ran, texts |-> texts]

\* display_result(data), in detail
DisplayResultInDetail ==
    /\ locals.fn = "render"
    /\ locals.ran = "none"
    /\ locals' = RenderLocals(locals.data, locals.absent, "display_result",
                              DisplayResultTexts(locals.data))
    /\ UNCHANGED <<file_list, results_store, workers, btn_run, btn_export,
                   progress_bar, status_label, current_row, display, notice,
                   document, session, last_call, batch_cached, batch_count,
                   batch_started>>

\* one pass of the loop of export_to_word, in detail
ExportSectionInDetail ==
    /\ locals.fn = "render"
    /\ locals.ran = "none"
    /\ locals' = RenderLocals(locals.data, locals.absent, "export_to_word",
                              ExportSectionTexts(locals.data))
    /\ UNCHANGED <<file_list, results_store, workers, btn_run, btn_export,
                   progress_bar, status_label, current_row, display, notice,
                   document, session, last_call, batch_cached, batch_count,
                   batch_started>>

\* ------------------------------------------------------ on_result / on_error
\* the index on_result continues with
ResultNext(index) == index + 1

\* on_error trying the failed row again
ErrorNext_same(index) == index

\* on_error stepping over the row after the failed one
ErrorNext_skip(index) == index + 2

\* the index on_error continues with
ErrorNext(index) == index + 1

\* on_error writing the failure into the store
OnErrorStore_marks(store, path, err) == StorePut(store, path, {err})

\* the store after on_error: on_error does not touch it
OnErrorStore(store, path, err) == store

SetText(list, index, text) == [list EXCEPT ![index + 1].text = text]

OnResult(k) ==
    /\ session = "alive"
    /\ k \in 1..Len(workers)
    /\ workers[k].sig.kind = "finished"
    /\ LET w     == workers[k]
           store == StorePut(results_store, w.file_path, w.sig.result)
       IN  /\ results_store' = store
           /\ file_list' = SetText(file_list, w.index, "[v]")
           /\ display' = DisplayResult(w.sig.result)
           /\ last_call' = Call("on_result", FALSE, w.index)
           /\ IF DisplayRaises(w.sig.result)
              THEN /\ session' \in AfterRaise
                   /\ workers' = RemoveAt(workers, k)
                   /\ notice' = "none"
                   /\ UNCHANGED <<btn_run, btn_export, progress_bar, status_label,
                                  current_row, batch_started>>
              ELSE /\ ProcessNextFile(ResultNext(w.index), w.api_key, w.model_endpoint,
                                      [store      |-> store,
                                       workers    |-> RemoveAt(workers, k),
                                       btn_run    |-> btn_run,
                                       btn_export |-> btn_export,
                                       started    |-> batch_started])
                   /\ UNCHANGED session
    /\ UNCHANGED <<document, batch_cached, batch_count, locals>>

OnError(k) ==
    /\ session = "alive"
    /\ k \in 1..Len(workers)
    /\ workers[k].sig.kind = "error"
    /\ LET w     == workers[k]
           store == OnErrorStore(results_store, w.file_path, w.sig.err)
       IN  /\ results_store' = store
           /\ file_list' = SetText(file_list, w.index, "[X]")
           /\ last_call' = Call("on_error", FALSE, w.index)
           /\ ProcessNextFile(ErrorNext(w.index), w.api_key, w.model_endpoint,
                              [store      |-> store,
                               workers    |-> RemoveAt(workers, k),
                               btn_run    |-> btn_run,
                               btn_export |-> btn_export,
                               started    |-> batch_started])
    /\ UNCHANGED <<display, document, session, batch_cached, batch_count, locals>>

\* ------------------------------------------------------- load_selected_result
\* a click on row `index`
LoadSelectedResult(index) ==
    /\ session = "alive"
    /\ index \in 0..(Len(file_list) - 1)
    /\ current_row' = index
    /\ last_call' = Call("load_selected_result", FALSE, index)
    /\ notice' = "none"
    /\ LET file_path == file_list[index + 1].data
       IN  IF file_path \in Keys(results_store)
           THEN /\ display' = DisplayResult(Lookup(results_store, file_path))
                /\ IF DisplayRaises(Lookup(results_store, file_path))
                   THEN session' \in AfterRaise
                   ELSE UNCHANGED session
           ELSE /\ display' = [text_original |-> NotGraded,
                               text_feedback |-> Empty,
                               text_revised  |-> Empty]
                /\ UNCHANGED session
    /\ UNCHANGED <<file_list, results_store, workers, btn_run, btn_export,
                   progress_bar, status_label, document, batch_cached, batch_count, batch_started, locals>>

\* ------------------------------------------------------------- export_to_word
\* the sections the loop over self.results_store.items() adds, one per entry
ExportSections(store) == [k \in 1..Len(store) |-> store[k].path]

\* save: what the save dialog and doc.save do
SaveOutcomes == {"cancelled", "saved", "save_failed"}

\* a failed save throwing the results away
ExportStore_drops(store, save) == IF save = "save_failed" THEN <<>> ELSE store

\* the store after export_to_word: it only iterates self.results_store.items()
ExportStore(store, save) == store

ExportToWord(save) ==
    /\ session = "alive"
    /\ btn_export
    /\ last_call' = Call("export_to_word", FALSE, -1)
    /\ IF results_store = <<>>
       THEN /\ notice' = "no_data"
            /\ UNCHANGED document
       ELSE IF save = "cancelled"
       THEN /\ notice' = "none"
            /\ UNCHANGED document
       ELSE IF save = "saved"
       THEN /\ notice' = "saved"
            /\ document' = [saved |-> TRUE, sections |-> ExportSections(results_store)]
       ELSE /\ notice' = "save_failed"
            /\ UNCHANGED document
    /\ results_store' = ExportStore(results_store, save)
    /\ UNCHANGED <<file_list, workers, btn_run, btn_export,
                   progress_bar, status_label, current_row, display, session,
                   batch_cached, batch_count, batch_started, locals>>

\* ------------------------------------------- Worker.run: the reply's content
\* a text is a sequence of characters, the backtick written Tick; the two
\* literals line 182 removes
Tick == "backtick"

FenceJson == <<Tick, Tick, Tick, "j", "s", "o", "n">>

Fence == <<Tick, Tick, Tick>>

\* content.replace(old, ""): every occurrence of old, found from the left
\* without overlap, is removed
RECURSIVE Remove(_, _)
Remove(text, old) ==
    IF Len(text) < Len(old) THEN text
    ELSE IF SubSeq(text, 1, Len(old)) = old
         THEN Remove(SubSeq(text, Len(old) + 1, Len(text)), old)
         ELSE <<Head(text)>> \o Remove(Tail(text), old)

\* content.replace(FenceJson, "").replace(Fence, "").strip()
Clean(content) == Strip(Remove(Remove(content, FenceJson), Fence))

\* the text of a JSON object with the one member "t", a string without
\* quotes, backslashes or control characters: {"t":"<value>"}
ObjectOpen == <<"{", "\"", "t", "\"", ":", "\"">>

ObjectClose == <<"\"", "}">>

Dumps(value) == ObjectOpen \o value \o ObjectClose

\* json.loads on such a text: the object, or JSONDecodeError for a text that
\* is no such object (a raw line break or a quote inside the string too)
DecodeError == [ok |-> FALSE, t |-> <<>>]

Loads(text) ==
    LET n     == Len(text)
        inner == SubSeq(text, Len(ObjectOpen) + 1, n - Len(ObjectClose))
    IN  IF /\ n >= Len(ObjectOpen) + Len(ObjectClose)
           /\ SubSeq(text, 1, Len(ObjectOpen)) = ObjectOpen
           /\ SubSeq(text, n - Len(ObjectClose) + 1, n) = ObjectClose
           /\ \A k \in 1..Len(inner) : inner[k] \notin {"\"", "\n"}
        THEN [ok |-> TRUE, t |-> inner]
        ELSE DecodeError

\* the locals of run from the reply on: the structure the reply's text was
\* written from, content, where run is, and result_json
ReplyLocals(sent, content, at, result_json) ==
    [fn |-> "run", sent |-> sent, content |-> content, at |-> at,
     result_json |-> result_json]

\* line 182
RunClean ==
    /\ locals.fn = "run"
    /\ locals.at = "reply"
    /\ locals' = ReplyLocals(locals.sent, Clean(locals.content), "cleaned", DecodeError)
    /\ UNCHANGED <<file_list, results_store, workers, btn_run, btn_export,
                   progress_bar, status_label, current_row, display, notice,
                   document, session, last_call, batch_cached, batch_count,
                   batch_started>>

\* line 185
RunLoads ==
    /\ locals.fn = "run"
    /\ locals.at = "cleaned"
    /\ locals' = ReplyLocals(locals.sent, locals.content, "loaded", Loads(locals.content))
    /\ UNCHANGED <<file_list, results_store, workers, btn_run, btn_export,
                   progress_bar, status_label, current_row, display, notice,
                   document, session, last_call, batch_cached, batch_count,
                   batch_started>>

\* --------------------------------------------------------------- encode_image
max_size == 2048

\* math.floor(number) and math.ceil(number) of number = num / den
Floor(num, den) == num \div den

Ceil(num, den) == IF num % den = 0 THEN num \div den ELSE (num \div den) + 1

AtLeastOne(n) == IF n < 1 THEN 1 ELSE n

\* img.resize((max_size, max_size)) in place of thumbnail
Thumbnail_square(size) == {<<max_size, max_size>>}

\* the sizes img.thumbnail((max_size, max_size)) may leave of an image of
\* size <<width, height>>.  With x = y = max_size and aspect = width / height:
\* no change when both sides fit; when x / y >= aspect, x becomes
\* round_aspect(y * aspect) with key |aspect - n / y|; otherwise y becomes
\* round_aspect(x / aspect) with key 0 for n = 0 and |aspect - x / n|
\* otherwise; round_aspect takes of floor and ceil the one with the smaller
\* key, the floor on equal keys, and at least 1.  The keys are compared as
\* exact fractions; where the exact keys of x / aspect are equal and the
\* quotient is rounded, either candidate is allowed.
Thumbnail(size) ==
    LET width  == size[1]
        height == size[2]
    IN  IF max_size >= width /\ max_size >= height THEN {size}
        ELSE IF width <= height
        THEN LET f == Floor(max_size * width, height)
                 c == Ceil(max_size * width, height)
                 r == (max_size * width) % height
             IN  {<<AtLeastOne(IF r <= height - r THEN f ELSE c), max_size>>}
        ELSE LET f == Floor(max_size * height, width)
                 c == Ceil(max_size * height, width)
                 r == (max_size * height) % width
             IN  IF f = 0 THEN {<<max_size, AtLeastOne(f)>>}
                 ELSE IF r * c < (width - r) * f THEN {<<max_size, f>>}
                 ELSE IF r * c > (width - r) * f THEN {<<max_size, c>>}
                 ELSE {<<max_size, f>>, <<max_size, c>>}

MaxOf(size) == IF size[1] >= size[2] THEN size[1] ELSE size[2]

\* the sizes of the image encode_image saves, for an opened image of `size`
EncodeSizes(size) == IF MaxOf(size) > max_size THEN Thumbnail(size) ELSE {size}

\* the locals of encode_image: the size of the opened image, img.size, and
\* whether the image has been saved
ImageLocals(opened, size, saved) ==
    [fn |-> "encode_image", opened |-> opened, size |-> size, saved |-> saved]

\* encode_image from the opened image to img.save
EncodeImage ==
    /\ locals.fn = "encode_image"
    /\ ~locals.saved
    /\ \E size \in EncodeSizes(locals.size) :
           locals' = ImageLocals(locals.opened, size, TRUE)
    /\ UNCHANGED <<file_list, results_store, workers, btn_run, btn_export,
                   progress_bar, status_label, current_row, display, notice,
                   document, session, last_call, batch_cached, batch_count,
                   batch_started>>

\* ---------------------------------------------------------------------- Spec
Signals == {Emit(outcome) : outcome \in Outcomes}

Next ==
    \/ \E files \in Selections : AddFiles(files)
    \/ \E k \in Texts, e \in Texts : StartGrading(k, e)
    \/ \E k \in 1..Len(workers), sig \in Signals : WorkerRun(k, sig)
    \/ \E k \in 1..Len(workers) : OnResult(k)
    \/ \E k \in 1..Len(workers) : OnError(k)
    \/ \E index \in 0..(MaxFiles - 1) : LoadSelectedResult(index)
    \/ \E save \in SaveOutcomes : ExportToWord(save)

Spec == Init /\ [][Next]_vars

\* The Qt event loop delivers every queued signal to its slot; that every
\* started Worker ends its run is the assumption the termination claim states.
FairSpec ==
    /\ Spec
    /\ WF_vars(\E k \in 1..Len(workers), sig \in Signals : WorkerRun(k, sig))
    /\ WF_vars(\E k \in 1..Len(workers) : OnResult(k))
    /\ WF_vars(\E k \in 1..Len(workers) : OnError(k))

\* ------------------------------------------------- progress of long batches
\* a list of n files already added, nothing graded yet
InitProgress ==
    /\ \E n \in 1..MaxCount : file_list = [k \in 1..n |-> [data |-> k, text |-> "plain"]]
    /\ results_store = <<>>
    /\ workers = <<>>
    /\ btn_run = TRUE
    /\ btn_export = FALSE
    /\ progress_bar = -1
    /\ status_label = Label("ready", 0)
    /\ current_row = -1
    /\ display = [text_original |-> Empty, text_feedback |-> Empty, text_revised |-> Empty]
    /\ notice = "none"
    /\ document = [saved |-> FALSE, sections |-> <<>>]
    /\ session = "alive"
    /\ last_call = Call("init", FALSE, -1)
    /\ batch_cached = <<>>
    /\ batch_started = <<>>
    /\ batch_count = 0
    /\ locals = NoLocals

\* batches in which every request fails, so that every row is started
NextProgress ==
    \/ StartGrading(<<"k">>, <<"e">>)
    \/ \E k \in 1..Len(workers) : WorkerRun(k, Failed("transport"))
    \/ \E k \in 1..Len(workers) : OnError(k)

SpecProgress == InitProgress /\ [][NextProgress]_vars

\* ------------------------------------------------------ add_files followed
\* the session from its start, with the selection of every add_files kept
InitAdd ==
    /\ file_list = <<>>
    /\ results_store = <<>>
    /\ workers = <<>>
    /\ btn_run = TRUE
    /\ btn_export = FALSE
    /\ progress_bar = -1
    /\ status_label = Label("ready", 0)
    /\ current_row = -1
    /\ display = [text_original |-> Empty, text_feedback |-> Empty, text_revised |-> Empty]
    /\ notice = "none"
    /\ document = [saved |-> FALSE, sections |-> <<>>]
    /\ session = "alive"
    /\ last_call = Call("init", FALSE, -1)
    /\ batch_cached = <<>>
    /\ batch_started = <<>>
    /\ batch_count = 0
    /\ locals = AddLocals(<<>>)

\* files are added before, during and after batches, whose requests fail
NextAdd ==
    \/ \E files \in Selections : AddFiles(files)
    \/ StartGrading(<<"k">>, <<"e">>)
    \/ \E k \in 1..Len(workers) : WorkerRun(k, Failed("transport"))
    \/ \E k \in 1..Len(workers) : OnError(k)

SpecAdd == InitAdd /\ [][NextAdd]_vars

\* ------------------------------------------------- encode_image followed
Sides ==
    (1..MaxSmallSide)
        \cup ((max_size - MaxNearSide)..(max_size + MaxNearSide))
        \cup {k * (max_size \div 2) + d : k \in 1..(2 * MaxFactor), d \in {-1, 0, 1}}

\* the widgets as they are at the start of a session
Idle ==
    /\ file_list = <<>>
    /\ results_store = <<>>
    /\ workers = <<>>
    /\ btn_run = TRUE
    /\ btn_export = FALSE
    /\ progress_bar = -1
    /\ status_label = Label("ready", 0)
    /\ current_row = -1
    /\ display = [text_original |-> Empty, text_feedback |-> Empty, text_revised |-> Empty]
    /\ notice = "none"
    /\ document = [saved |-> FALSE, sections |-> <<>>]
    /\ session = "alive"
    /\ last_call = Call("init", FALSE, -1)
    /\ batch_cached = <<>>
    /\ batch_started = <<>>
    /\ batch_count = 0

InitImage ==
    /\ Idle
    /\ \E width \in Sides, height \in Sides :
           locals = ImageLocals(<<width, height>>, <<width, height>>, FALSE)

NextImage == EncodeImage

SpecImage == InitImage /\ [][NextImage]_vars

\* ---------------------------------------------------- the reply followed
\* string values: the sequences of at most n of these characters
ValueChars == {Tick, "a", " "}

RECURSIVE ValuesUpTo(_)
ValuesUpTo(n) ==
    IF n = 0 THEN {<<>>}
    ELSE LET shorter == ValuesUpTo(n - 1)
         IN  shorter \cup {Append(v, c) : v \in {u \in shorter : Len(u) = n - 1},
                                          c \in ValueChars}

\* the ways the endpoint wraps the JSON text
Wrappings == {"bare", "fenced_json", "fenced"}

Wrap(wrapping, text) ==
    CASE wrapping = "bare"        -> text
      [] wrapping = "fenced_json" -> FenceJson \o <<"\n">> \o text \o <<"\n">> \o Fence
      [] wrapping = "fenced"      -> Fence \o <<"\n">> \o text \o <<"\n">> \o Fence

InitReply ==
    /\ Idle
    /\ \E value \in ValuesUpTo(MaxValueLen), wrapping \in Wrappings :
           locals = ReplyLocals([ok |-> TRUE, t |-> value],
                                Wrap(wrapping, Dumps(value)), "reply", DecodeError)

NextReply == RunClean \/ RunLoads

SpecReply == InitReply /\ [][NextReply]_vars

\* ------------------------------------------------ the projections followed
ScoreKeys == {"dim1_score", "dim2_score", "dim3_score", "total"}

ContentKeys == {"weakness", "suggestion"}

ItemKeys == {"original", "revised", "explanation"}

LanguageKeys == {"sentence_corrections", "general_comment"}

FeedbackKeys == {"content", "language", "structure", "overall_summary"}

FieldNames ==
    AllFields \cup ScoreKeys \cup FeedbackKeys \cup ContentKeys \cup LanguageKeys \cup ItemKeys

\* the result the rubric prompt asks for, with the given scores and one
\* sentence correction, built without the keys in `absent`
MakeResult(absent, score) ==
    LET item     == [k \in ItemKeys \ absent |-> PyStr(k)]
        language == [k \in LanguageKeys \ absent |->
                        IF k = "sentence_corrections" THEN <<item>> ELSE PyStr(k)]
        content  == [k \in ContentKeys \ absent |-> PyStr(k)]
        feedback == [k \in FeedbackKeys \ absent |->
                        CASE k = "content"  -> content
                          [] k = "language" -> language
                          [] OTHER          -> PyStr(k)]
        scores   == [k \in ScoreKeys \ absent |-> PyInt(score[k])]
    IN  [k \in AllFields \ absent |->
            CASE k = "scores"          -> scores
              [] k = "feedback_detail" -> feedback
              [] OTHER                 -> PyStr(k)]

\* the scores of the prompt's example
ExampleScore ==
    [k \in ScoreKeys |->
        CASE k = "dim1_score" -> 4 [] k = "dim2_score" -> 3 [] k = "dim3_score" -> 4
          [] k = "total" -> 11]

ScoreSets ==
    {[k \in ScoreKeys |->
         CASE k = "dim1_score" -> d1 [] k = "dim2_score" -> d2 [] k = "dim3_score" -> d3
           [] k = "total" -> t] :
        d1 \in 0..MaxDimScore, d2 \in 0..MaxDimScore, d3 \in 0..MaxDimScore,
        t \in 0..MaxTotalScore}

\* results with at most MaxAbsent keys left out
InitRender ==
    /\ Idle
    /\ \E absent \in {a \in SUBSET FieldNames : Cardinality(a) <= MaxAbsent} :
           locals = RenderLocals(MakeResult(absent, ExampleScore), absent, "none", EmptyDict)

NextRender == DisplayResultInDetail \/ ExportSectionInDetail

SpecRender == InitRender /\ [][NextRender]_vars

\* complete results with every combination of scores
InitScores ==
    /\ Idle
    /\ \E score \in ScoreSets :
           locals = RenderLocals(MakeResult({}, score), {}, "none", EmptyDict)

SpecScores == InitScores /\ [][NextRender]_vars

\* -------------------------------------------------------------------- claims
Rows == 0..(Len(file_list) - 1)

PathAt(i) == file_list[i + 1].data

TextAt(i) == file_list[i + 1].text

\* a Worker started for row i has not had its signal handled
Live(i) == \E k \in 1..Len(workers) : workers[k].index = i

Min(S) == CHOOSE x \in S : \A y \in S : x <= y

\* the rows not in the store
Uncached == {i \in Rows : PathAt(i) \notin Keys(results_store)}

\* the state right after the batch-complete branch of process_next_file
BatchComplete ==
    /\ btn_run
    /\ btn_export
    /\ progress_bar = 100
    /\ notice = "batch_complete"
    /\ workers = <<>>

\* C1: in every reachable state at most one Worker is started and not yet
\* handled, so the next Worker starts only after the previous one's finished
\* or error signal has been handled.
C1_AtMostOneRunning == Len(workers) <= 1

\* C1 witness: the second file of a batch is Running after the first one's
\* signal has been handled.
C1_SecondFileRunning ==
    /\ Len(batch_started) >= 2
    /\ Len(workers) = 1
    /\ workers[1].sig = Running

\* C2: within one batch the rows are started in strictly increasing order, no
\* row twice; when row j is started every row before it was in the store when
\* the batch began or was started earlier in this batch, and every started row
\* but the last has completed (it carries [v] or [X] and no Worker is live).
C2_ListOrder ==
    /\ \A a, b \in 1..Len(batch_started) :
           a < b => batch_started[a] < batch_started[b]
    /\ \A b \in 1..Len(batch_started) :
           \A i \in 0..(batch_started[b] - 1) :
               \/ PathAt(i) \in Keys(batch_cached)
               \/ \E a \in 1..(b - 1) : batch_started[a] = i
    /\ \A a \in 1..Len(batch_started) :
           IF a < Len(batch_started)
           THEN ~Live(batch_started[a]) /\ TextAt(batch_started[a]) \in {"[v]", "[X]"}
           ELSE \A k \in 1..Len(workers) : workers[k].index = batch_started[a]

\* C2 witness: a batch has started two rows, the first failed and the second
\* succeeded, and both are handled.
C2_TwoRowsInOrder ==
    /\ Len(batch_started) >= 2
    /\ workers = <<>>
    /\ TextAt(batch_started[1]) = "[X]"
    /\ TextAt(batch_started[2]) = "[v]"

\* C3: the on_error step marks its row [X], leaves the store and every other
\* row as they were, and goes on: the first later row that is not in the store
\* gets a Worker, and the batch completes when there is none.
C3_FailureIsolation ==
    [][last_call'.op = "on_error" =>
        LET i    == last_call'.index
            rest == {j \in Uncached : j > i}
        IN  /\ Len(file_list') = Len(file_list)
            /\ file_list'[i + 1] = [data |-> PathAt(i), text |-> "[X]"]
            /\ \A j \in Rows \ {i} : file_list'[j + 1] = file_list[j + 1]
            /\ results_store' = results_store
            /\ IF rest = {}
               THEN workers' = <<>> /\ btn_run' /\ progress_bar' = 100
               ELSE /\ Len(workers') = 1
                    /\ workers'[1].index = Min(rest)
                    /\ workers'[1].file_path = PathAt(Min(rest))
                    /\ workers'[1].sig = Running]_vars

\* C3 witness: a failure has just been handled, its row is marked [X], and the
\* batch has started a later row.
C3_WentOnAfterFailure ==
    /\ last_call.op = "on_error"
    /\ TextAt(last_call.index) = "[X]"
    /\ Len(workers) = 1
    /\ workers[1].index > last_call.index

C5_IdempotentSkip ==
    /\ \A a \in 1..Len(batch_started) :
           PathAt(batch_started[a]) \notin Keys(batch_cached)
    /\ Len(batch_cached) <= Len(results_store)
    /\ \A k \in 1..Len(batch_cached) : results_store[k] = batch_cached[k]
    /\ (/\ last_call.op = "start_grading"
        /\ ~last_call.blank
        /\ file_list # <<>>
        /\ Uncached = {})
       => (BatchComplete /\ batch_started = <<>>)

\* C5 witness: start_grading on a list whose rows are all in the store.
C5_AllCachedBatch ==
    /\ last_call.op = "start_grading"
    /\ ~last_call.blank
    /\ Len(file_list) >= 2
    /\ Uncached = {}

\* C6 (as claimed): a row marked [X] has a store entry and no Worker is
\* started for it again.
C6_FailedIsTerminal ==
    \A i \in Rows :
        TextAt(i) = "[X]" => (PathAt(i) \in Keys(results_store) /\ ~Live(i))

\* C6 (amended): a row marked [X] has no store entry; no row is started twice
\* in one batch; and start_grading starts a Worker for the first row that is
\* not in the store, a row marked [X] like any other.
C6_FailedIsRetried ==
    /\ \A i \in Rows : TextAt(i) = "[X]" => PathAt(i) \notin Keys(results_store)
    /\ \A a, b \in 1..Len(batch_started) :
           a # b => batch_started[a] # batch_started[b]
    /\ (/\ last_call.op = "start_grading"
        /\ ~last_call.blank
        /\ Uncached # {})
       => (/\ Len(workers) = 1
           /\ workers[1].index = Min(Uncached)
           /\ workers[1].sig = Running)

\* C6 witness: a later start_grading has a Worker running for a row marked [X].
C6_FailedRowRunningAgain ==
    /\ last_call.op = "start_grading"
    /\ Len(workers) = 1
    /\ TextAt(workers[1].index) = "[X]"

\* the frame of a start_grading that stops at the configuration check
ConfigFrame ==
    UNCHANGED <<file_list, results_store, workers, progress_bar, btn_run, btn_export>>

\* C7 (as claimed): start_grading with a blank credential or endpoint reports
\* the configuration error, starts no Worker and changes nothing, for every
\* file list.
C7_ConfigFailFast ==
    [][(last_call'.op = "start_grading" /\ last_call'.blank) =>
        (notice' = "config_missing" /\ ConfigFrame)]_vars

\* C7 (amended): it starts no Worker and changes nothing; it reports the
\* configuration error exactly when the file list is not empty.
C7_ConfigFailFastNonEmpty ==
    [][(last_call'.op = "start_grading" /\ last_call'.blank) =>
        /\ ConfigFrame
        /\ notice' = IF file_list = <<>> THEN "none" ELSE "config_missing"]_vars

\* C7 witness: the configuration error shown for a list with ungraded files.
C7_ConfigErrorShown ==
    /\ last_call.op = "start_grading"
    /\ last_call.blank
    /\ notice = "config_missing"
    /\ Uncached # {}

\* the paths of the rows, in list order, that have a store entry
GradedInListOrder ==
    SelectSeq([k \in 1..Len(file_list) |-> file_list[k].data],
              LAMBDA path : path \in Keys(results_store))

\* C8: a saved report holds one section per file with a graded result, in
\* file-list order.
C8_ExportInListOrder ==
    (last_call.op = "export_to_word" /\ notice = "saved") =>
        document.sections = GradedInListOrder

\* C9: the store never holds two entries for one path, and no step changes or
\* removes an entry.
C9_CacheWriteOnce ==
    /\ [](\A a, b \in 1..Len(results_store) :
             results_store[a].path = results_store[b].path => a = b)
    /\ [][/\ Len(results_store') >= Len(results_store)
          /\ \A k \in 1..Len(results_store) : results_store'[k] = results_store[k]]_vars

\* C9 witness: a batch that began with an entry in the store has stored a
\* second result.
C9_SecondBatchStored ==
    /\ last_call.op = "on_result"
    /\ batch_cached # <<>>
    /\ Len(results_store) > Len(batch_cached)

\* C10: when a Worker has just been started for row i of n, the progress bar
\* shows floor(100 * i / n), below 100; it shows 100 only after the
\* batch-complete branch.
C10_ProgressFloor ==
    /\ (/\ last_call.op \in {"start_grading", "on_result", "on_error"}
        /\ workers # <<>>
        /\ workers[Len(workers)].sig = Running)
       => (/\ progress_bar = (100 * workers[Len(workers)].index) \div Len(file_list)
           /\ progress_bar < 100)
    /\ progress_bar = 100 => (workers = <<>> /\ btn_run /\ status_label.kind = "all_done")

\* the elements of a sequence
Range(seq) == {seq[k] : k \in 1..Len(seq)}

\* the position of the first occurrence of x in seq
FirstAt(seq, x) == Min({k \in 1..Len(seq) : seq[k] = x})

\* C12: the file list never holds a path twice; no step removes a row or
\* changes the path of a row; and add_files appends exactly the selected
\* paths that were not yet in the list, each once, as plain rows in the order
\* of their first occurrence in the selection.
C12_AddFilesNoDuplicates ==
    /\ [](\A a, b \in 1..Len(file_list) :
             file_list[a].data = file_list[b].data => a = b)
    /\ [][/\ Len(file_list') >= Len(file_list)
          /\ \A k \in 1..Len(file_list) : file_list'[k].data = file_list[k].data]_vars
    /\ [][last_call'.op = "add_files" =>
            LET files == locals'.files
                old   == Len(file_list)
                fresh == Range(files) \ ItemPaths(file_list)
            IN  /\ SubSeq(file_list', 1, old) = file_list
                /\ Len(file_list') = old + Cardinality(fresh)
                /\ \A k \in (old + 1)..Len(file_list') :
                       /\ file_list'[k].data \in fresh
                       /\ file_list'[k].text = "plain"
                /\ \A a, b \in (old + 1)..Len(file_list') :
                       a < b => FirstAt(files, file_list'[a].data)
                                    < FirstAt(files, file_list'[b].data)]_vars

\* C12 witness: add_files was given one new path twice in one selection and
\* the list holds it once, after a row that was there before.
C12_DuplicateInSelection ==
    /\ last_call.op = "add_files"
    /\ Len(locals.files) = 2
    /\ locals.files[1] = locals.files[2]
    /\ Len(file_list) = 2
    /\ PathAt(1) = locals.files[1]

\* C13: load_selected_result and export_to_word, whatever the save does, leave
\* the file list (paths and markers) and the store as they were; and the
\* display_result inside on_result adds nothing to on_result's own writes, the
\* marker of its row and the store entry of its path.
C13_PresentationReadOnly ==
    /\ [][last_call'.op \in {"load_selected_result", "export_to_word"} =>
            UNCHANGED <<file_list, results_store>>]_vars
    /\ [][last_call'.op = "on_result" =>
            LET i == last_call'.index
            IN  /\ file_list' = [file_list EXCEPT ![i + 1].text = "[v]"]
                /\ Keys(results_store') = Keys(results_store) \cup {PathAt(i)}
                /\ \A path \in Keys(results_store) \ {PathAt(i)} :
                       Lookup(results_store', path) = Lookup(results_store, path)]_vars

\* C13 witness: a save has just failed for a store with a result, next to a
\* row marked [X].
C13_SaveFailedWithResults ==
    /\ last_call.op = "export_to_word"
    /\ notice = "save_failed"
    /\ results_store # <<>>
    /\ \E i \in Rows : TextAt(i) = "[X]"

\* C18: Export starts disabled; while a Worker is started and not yet handled
\* both buttons are disabled; a button goes from disabled to enabled only in
\* the batch-complete branch, which enables both with no Worker left; and
\* start_grading and export_to_word run only with no Worker unhandled, the
\* export with every row the last batch started marked [v] or [X].
C18_ButtonsOnlyBetweenBatches ==
    /\ ~btn_export
    /\ [](workers # <<>> => (~btn_run /\ ~btn_export))
    /\ [][((btn_run' /\ ~btn_run) \/ (btn_export' /\ ~btn_export)) =>
            (/\ notice' = "batch_complete"
             /\ btn_run' /\ btn_export'
             /\ workers' = <<>>)]_vars
    /\ [][last_call'.op \in {"start_grading", "export_to_word"} => workers = <<>>]_vars
    /\ [][last_call'.op = "export_to_word" =>
            \A a \in 1..Len(batch_started) :
                TextAt(batch_started[a]) \in {"[v]", "[X]"}]_vars

\* C18 witness: a Worker is running in a batch begun after an earlier batch
\* had completed and enabled Export.
C18_RunningInLaterBatch ==
    /\ workers # <<>>
    /\ workers[1].sig = Running
    /\ batch_cached # <<>>
    /\ ~btn_run
    /\ ~btn_export

\* the rows the current batch started a Worker for
StartedRows == {batch_started[a] : a \in 1..Len(batch_started)}

\* C19: when the batch-complete event is shown, every row of the list as it
\* is then, rows appended since the batch began included, is in the store or
\* was started by this batch and is marked [X]; every row appended since the
\* batch began was started by this batch.
C19_MidBatchAdditionsProcessed ==
    notice = "batch_complete" =>
        /\ \A i \in Rows :
               \/ PathAt(i) \in Keys(results_store)
               \/ i \in StartedRows /\ TextAt(i) = "[X]"
        /\ \A i \in Rows : i >= batch_count => i \in StartedRows

\* C19 witness: a batch is complete whose list grew after it began, and the
\* last row was started by it.
C19_GrewDuringBatch ==
    /\ notice = "batch_complete"
    /\ batch_count >= 1
    /\ Len(file_list) > batch_count
    /\ (Len(file_list) - 1) \in StartedRows

\* C20: every key of the store is the path of a row; a row is marked [v]
\* exactly when its path is a key of the store; a row marked [X] has no entry.
C20_MarkersMatchStore ==
    /\ Keys(results_store) \subseteq ItemPaths(file_list)
    /\ \A i \in Rows : (TextAt(i) = "[v]") <=> (PathAt(i) \in Keys(results_store))
    /\ \A i \in Rows : TextAt(i) = "[X]" => PathAt(i) \notin Keys(results_store)

\* C20 witness: one batch has started both rows; the first is marked [v] and
\* is the only entry of the store, the second is marked [X].
C20_RetriedRowStored ==
    /\ Len(file_list) = 2
    /\ Len(results_store) = 1
    /\ TextAt(0) = "[v]"
    /\ TextAt(1) = "[X]"
    /\ results_store[1].path = PathAt(0)
    /\ batch_cached = <<>>
    /\ batch_started = <<0, 1>>

\* the Workers started for row i whose signal is not yet handled
WorkersOf(ws, i) == {k \in 1..Len(ws) : ws[k].index = i}

LongOf(size) == MaxOf(size)

ShortOf(size) == IF size[1] >= size[2] THEN size[2] ELSE size[1]

\* |a - b|
Dist(a, b) == IF a >= b THEN a - b ELSE b - a

\* C16: the saved image of an opened image whose long side exceeds max_size
\* has the same orientation, long side max_size and a short side within one
\* pixel of max_size * short / long; an image whose sides are both at most
\* max_size is saved with its size; and no side of the saved image exceeds
\* that side of the opened image.
C16_ImageSizeBound ==
    (locals.fn = "encode_image" /\ locals.saved) =>
        LET in  == locals.opened
            out == locals.size
        IN  /\ IF LongOf(in) > max_size
               THEN /\ LongOf(out) = max_size
                    /\ (in[1] >= in[2]) => out[1] = max_size
                    /\ (in[2] >= in[1]) => out[2] = max_size
                    /\ Dist(ShortOf(out) * LongOf(in), max_size * ShortOf(in)) <= LongOf(in)
               ELSE out = in
            /\ out[1] <= in[1]
            /\ out[2] <= in[2]
            /\ out[1] >= 1 /\ out[2] >= 1

\* C16 witness: an image wider than max_size and not square has been saved
\* with a height that is not a whole multiple of the scale.
C16_Downscaled ==
    /\ locals.fn = "encode_image"
    /\ locals.saved
    /\ locals.opened[1] > max_size
    /\ locals.opened[2] > 1
    /\ locals.opened[2] < locals.opened[1]
    /\ (max_size * locals.opened[2]) % locals.opened[1] # 0
    /\ locals.size[1] = max_size

\* C15: for every well-formed JSON object text, bare or wrapped in code
\* fences, cleaning and json.loads give an object whose member equals the
\* member the text was written from.
C15_FenceRoundTrip ==
    (locals.fn = "run" /\ locals.at = "loaded") => locals.result_json = locals.sent

\* the object a key of the result lies in ("": the result itself)
ParentOf(key) ==
    CASE key \in ScoreKeys    -> "scores"
      [] key \in FeedbackKeys -> "feedback_detail"
      [] key \in ContentKeys  -> "content"
      [] key \in LanguageKeys -> "language"
      [] key \in ItemKeys     -> "sentence_corrections"
      [] OTHER                -> ""

\* the key, or an object it lies in, was left out of the result
RECURSIVE MissingIn(_, _)
MissingIn(key, absent) ==
    key # "" /\ (key \in absent \/ MissingIn(ParentOf(key), absent))

\* the fixed texts a projection may show in the place of a missing value
FixedTexts == {<<>>, <<"wu">>, <<"zanwu">>, <<"0">>, <<"N", "o", "n", "e">>}

\* `text` is a fixed text followed by the place's fixed suffix
IsPlaceholder(text, suffix) == \E fixed \in FixedTexts : text = fixed \o suffix

\* the suffix the projections write after a score
ScoreSuffix(key, ran) ==
    IF key = "total" THEN OutOf15
    ELSE IF ran = "display_result" THEN OutOf5 ELSE <<>>

\* the places of `texts` that show one value each hold a placeholder where
\* that value is missing
PlaceholdersIn(texts, keys, absent, ran) ==
    \A key \in keys :
        MissingIn(key, absent) =>
            IsPlaceholder(texts[key], IF key \in ScoreKeys THEN ScoreSuffix(key, ran) ELSE <<>>)

\* so does the list of sentence corrections: the fixed sentence for a missing
\* list, a placeholder for each missing part of a correction
CorrectionsPlaceholders(shown, absent) ==
    IF MissingIn("sentence_corrections", absent)
    THEN shown \in {NoCorrectionsHtml, NoCorrectionsDoc}
    ELSE \A k \in 1..Len(shown) : PlaceholdersIn(shown[k], ItemKeys, absent, "")

C14_ScoreRendering ==
    (locals.fn = "render" /\ locals.ran # "none" /\ locals.absent = {}) =>
        LET scores == locals.data["scores"]
            texts  == IF locals.ran = "display_result"
                      THEN locals.texts.text_feedback ELSE locals.texts
        IN  /\ texts["total"] = Digits(scores["total"].int) \o <<"/", "1", "5">>
            /\ \A key \in ScoreKeys \ {"total"} :
                   texts[key] = Digits(scores[key].int) \o <<"/", "5">>
            /\ locals.data = MakeResult({}, ExampleScore) =>
                   /\ texts["total"] = <<"1", "1", "/", "1", "5">>
                   /\ texts["dim1_score"] = <<"4", "/", "5">>
                   /\ texts["dim2_score"] = <<"3", "/", "5">>
                   /\ texts["dim3_score"] = <<"4", "/", "5">>

====
